---- MODULE Spec2Model ----
(***************************************************************************)
(* Weather advisory: the advisory classifier (app.py,                      *)
(* generate_farmer_advice), the prediction log store (log_utils.py,        *)
(* append_log / read_recent) and the routes of app.py that call them.      *)
(*                                                                         *)
(* Numbers.  A Python float is modelled by the decimal it prints as, an    *)
(* integer count of millionths (22.0 is 22000000).  Where the rounding of  *)
(* generate_farmer_advice looks at the binary value, the float carries the *)
(* side e on which the double lies of that decimal: -1 below, 0 exactly    *)
(* on it, 1 above.                                                         *)
(***************************************************************************)
EXTENDS Integers, Sequences, FiniteSets, TLC

VARIABLES
    advised,            \* last call of generate_farmer_advice: input and result
    fileExists,         \* os.path.isfile(LOG_FILE)
    fileLines,          \* the lines of LOG_FILE, in file order
    model,              \* app.model is loaded (not None)
    twilio_client,      \* app.twilio_client is set
    ADMIN_PHONE,        \* app.ADMIN_PHONE is set
    OPENWEATHER_API_KEY,\* app.OPENWEATHER_API_KEY is set
    last,               \* the last completed operation: its input, outcome, result
    pre,                \* the log file as it was when the last operation began
    pc,                 \* concurrent callers of append_log: position of each
    file_exists,        \* concurrent callers: the local file_exists of each
    buf,                \* concurrent callers: lines written, not yet flushed
    row,                \* concurrent callers: the argument of each
    flushed             \* concurrent callers: number of append_log calls returned

vars == <<advised, fileExists, fileLines, model, twilio_client, ADMIN_PHONE,
          OPENWEATHER_API_KEY, last, pre, pc, file_exists, buf, row, flushed>>

storeVars == <<fileExists, fileLines, last, pre>>
configVars == <<model, twilio_client, ADMIN_PHONE, OPENWEATHER_API_KEY>>
concVars == <<pc, file_exists, buf, row, flushed>>

----------------------------------------------------------------------------
(* Bounds *)

MaxRain == 51          \* rainfall inputs of the classifier range over -1 .. MaxRain mm
MaxRecords == 3        \* the log holds at most this many data rows
MaxFaultRecords == 2   \* the same, where the storage can fail
MaxN == 3              \* read_recent(n) is called with n in 0 .. MaxN
NumCallers == 2        \* concurrent callers of append_log

----------------------------------------------------------------------------
(* Numbers *)

Micro == 1000 * 1000            \* millionths in one unit
PerCent == 100 * 100            \* millionths in one hundredth
Dyadic == 5 * 5 * 5 * 5 * 5 * 5 \* n millionths is a binary fraction iff 5^6 divides n

Min(a, b) == IF a < b THEN a ELSE b

\* round(x, 2) of Python 3: the decimal with two places nearest to the binary
\* value of x, a tie (only an exactly representable x can be one) going to the even
\* neighbour.  n is x's decimal in millionths, e the side the double lies on;
\* the result is in hundredths.
round(n, e) ==
    LET q == n \div PerCent
        r == n % PerCent
        half == PerCent \div 2
    IN  IF r < half THEN q
        ELSE IF r > half THEN q + 1
        ELSE IF e < 0 THEN q
        ELSE IF e > 0 THEN q + 1
        ELSE IF q % 2 = 0 THEN q ELSE q + 1

----------------------------------------------------------------------------
(* Advisory classifier: app.py, generate_farmer_advice *)

DroughtBelow == 1
LightBelow == 5
OptimalBelow == 20
HeavyBelow == 50

Advice(tag, mm, general, maize, beans) ==
    [title |-> [tag |-> tag, mm |-> mm], general |-> general,
     maize |-> maize, beans |-> beans]

\* rain_mm (in hundredths) < limit (in units), the comparison of lines 104-110
Below(rain_mm, limit) == rain_mm < limit * 100

\* The bands taken from the value as given, the title from the rounded one.
generate_farmer_advice_unrounded(n, e) ==
    LET rain_mm == round(n, e)
        tag == IF n < DroughtBelow * Micro THEN "Drought Alert"
               ELSE IF n < LightBelow * Micro THEN "Light Rain"
               ELSE IF n < OptimalBelow * Micro THEN "Optimal"
               ELSE IF n < HeavyBelow * Micro THEN "Heavy"
               ELSE "Severe Flooding"
    IN  Advice(tag, rain_mm, "", "", "")

generate_farmer_advice(n, e) ==
    LET rain_mm == round(n, e)
    IN  IF Below(rain_mm, DroughtBelow)
          THEN Advice("Drought Alert", rain_mm, "Very dry...", "Irrigate", "Delay sowing")
        ELSE IF Below(rain_mm, LightBelow)
          THEN Advice("Light Rain", rain_mm, "Light...", "Top-dress", "Monitor")
        ELSE IF Below(rain_mm, OptimalBelow)
          THEN Advice("Optimal", rain_mm, "Good for planting", "Plant", "Plant")
        ELSE IF Below(rain_mm, HeavyBelow)
          THEN Advice("Heavy", rain_mm, "Manage drainage", "Risk of rot", "Avoid field access")
        ELSE Advice("Severe Flooding", rain_mm, "Cease activity", "Loss likely", "Loss likely")

NoAdvice == Advice("", 0, "", "", "")

----------------------------------------------------------------------------
(* Values, dictionaries and CSV text *)

LOG_COLS == <<"date", "temperature", "wind", "pressure", "humidity", "cloud",
              "predicted_rainfall">>

NCols == Len(LOG_COLS)

\* Python values: a float (its decimal in millionths), a str, a str that spells
\* a number, and the NaN pandas gives a missing value.
Flt(n) == [t |-> "float", s |-> "", n |-> n]
Str(s) == [t |-> "str", s |-> s, n |-> 0]
NumStr(n) == [t |-> "numstr", s |-> "", n |-> n]
NaN == [t |-> "nan", s |-> "", n |-> 0]

\* The text of one CSV field: a numeral, the empty field, or other text.
NumTxt(n) == [t |-> "num", s |-> "", n |-> n]
Txt(s) == [t |-> "txt", s |-> s, n |-> 0]
EmptyTxt == [t |-> "empty", s |-> "", n |-> 0]

\* row.get(k, "") of line 14
Get(d, k) == IF k \in DOMAIN d THEN d[k] ELSE Str("")

\* csv.writer's text of a value: repr of a float, a str as it is
FieldText(v) ==
    IF v.t \in {"float", "numstr"} THEN NumTxt(v.n)
    ELSE IF v.t = "str" /\ v.s # "" THEN Txt(v.s)
    ELSE EmptyTxt

\* writer.writeheader(): the field names, in the order of LOG_COLS
HeaderLine == [i \in 1..NCols |-> Txt(LOG_COLS[i])]

\* writer.writerow({k: row.get(k, "") for k in LOG_COLS})
RowLine(d) == [i \in 1..NCols |-> FieldText(Get(d, LOG_COLS[i]))]

----------------------------------------------------------------------------
(* Prediction log store: log_utils.py *)

\* The storage's answer to one append_log call: it goes through, open() fails
\* (permissions, invalid path), or the write of the buffered lines fails when
\* the with block closes the file (disk full).
IOOutcomes == {"ok", "open_fails", "write_fails"}
NoIOFault == {"ok"}

\* Whether the storage lets read_csv read the file: always, or not always.
Readable == {TRUE}
ReadableOrNot == BOOLEAN

\* The file opened with "w": what was there is gone.
append_log_truncating(exists, lines, d, io) ==
    LET written == (IF ~exists THEN <<HeaderLine>> ELSE <<>>) \o <<RowLine(d)>>
    IN  IF io = "open_fails"
          THEN [exists |-> exists, lines |-> lines, raised |-> TRUE]
        ELSE IF io = "write_fails"
          THEN [exists |-> TRUE, lines |-> <<>>, raised |-> TRUE]
        ELSE [exists |-> TRUE, lines |-> written, raised |-> FALSE]

\* What one append_log call writes: open(LOG_FILE, "a") creates an absent file
\* and never truncates; the header goes first if isfile was false before the
\* open; header and row reach the file together when the file is closed.
append_log(exists, lines, d, io) ==
    LET isfile == exists
        written == (IF ~isfile THEN <<HeaderLine>> ELSE <<>>) \o <<RowLine(d)>>
    IN  IF io = "open_fails"
          THEN [exists |-> exists, lines |-> lines, raised |-> TRUE]
        ELSE IF io = "write_fails"
          THEN [exists |-> TRUE, lines |-> lines, raised |-> TRUE]
        ELSE [exists |-> TRUE, lines |-> lines \o written, raised |-> FALSE]

\* pandas infers a column's type from all its data fields: numeric when every
\* field is a numeral or empty, else object (text).
NumericColumn(data, j) == \A i \in 1..Len(data) : data[i][j].t \in {"num", "empty"}

\* Every column read as text (read_csv with dtype=str).
FieldValue_astext(f, numeric) ==
    IF f.t = "empty" THEN NaN
    ELSE IF f.t = "num" THEN NumStr(f.n)
    ELSE Str(f.s)

\* The value pandas gives one field; an empty field is NaN in either type.
FieldValue(f, numeric) ==
    IF f.t = "empty" THEN NaN
    ELSE IF f.t = "num" THEN (IF numeric THEN Flt(f.n) ELSE NumStr(f.n))
    ELSE Str(f.s)

\* pd.read_csv(LOG_FILE): the first line names the columns whatever it holds,
\* every further line is one record; a file of zero bytes raises
\* EmptyDataError, an unreadable one OSError.
read_csv(lines, readable) ==
    IF ~readable \/ lines = <<>>
      THEN [error |-> TRUE, df |-> <<>>]
      ELSE LET data == Tail(lines)
           IN  [error |-> FALSE,
                df |-> [i \in 1..Len(data) |->
                          [cols |-> Head(lines),
                           vals |-> [j \in 1..NCols |->
                                       FieldValue(data[i][j], NumericColumn(data, j))]]]]

\* df.head(n): the first n rows.
tail_head(df, n) == [i \in 1..Min(n, Len(df)) |-> df[i]]

\* df.tail(n): the last n rows in their order, all of them when n exceeds
\* their number, none when n is 0
tail(df, n) ==
    LET m == Min(n, Len(df))
    IN  [i \in 1..m |-> df[Len(df) - m + i]]

read_recent(exists, lines, n, readable) ==
    IF ~exists
      THEN [raised |-> FALSE, value |-> <<>>]
      ELSE LET r == read_csv(lines, readable)
           IN  IF r.error
                 THEN [raised |-> FALSE, value |-> <<>>]
                 ELSE [raised |-> FALSE, value |-> tail(r.df, n)]

\* rec[k] / rec.get(k) on a record read_recent returned: its keys are the
\* fields of the file's first line.
HasKey(rec, k) == \E j \in 1..NCols : rec.cols[j] = Txt(k)
Item(rec, k) == rec.vals[CHOOSE j \in 1..NCols : rec.cols[j] = Txt(k)]

----------------------------------------------------------------------------
(* Inputs *)

Measurements == {"temperature", "humidity", "wind", "pressure", "cloud"}

NoDict == [k \in {} |-> Str("")]

Now == "2024-01-01 08:00:00"

\* A complete prediction record: the seven fields, a date and six floats.
RecA == [date |-> Str(Now), temperature |-> Flt(22 * Micro), wind |-> Flt(9 * Micro),
         pressure |-> Flt(1012 * Micro), humidity |-> Flt(60 * Micro),
         cloud |-> Flt(40 * Micro), predicted_rainfall |-> Flt(Micro \div 2)]

\* The same without the key cloud, and with a key outside the schema.
RecNoCloud == [k \in DOMAIN RecA \ {"cloud"} |-> RecA[k]]
RecExtra == [k \in DOMAIN RecA \cup {"city"} |->
               IF k = "city" THEN Str("Kigali")
               ELSE RecA[k]]

Dicts == {RecA, RecNoCloud, RecExtra}

\* request.form of /predict: five numerals; one that is no number; one missing.
GoodForm == [temperature |-> NumStr(22 * Micro), humidity |-> NumStr(60 * Micro),
             wind |-> NumStr(9 * Micro), pressure |-> NumStr(1012 * Micro),
             cloud |-> NumStr(40 * Micro)]
BadForm == [GoodForm EXCEPT !.temperature = Str("abc")]
MissingForm == [k \in DOMAIN GoodForm \ {"humidity"} |-> GoodForm[k]]
Forms == {GoodForm, BadForm, MissingForm}

\* The JSON of the weather service: main.temp, main.humidity, main.pressure,
\* wind.speed (m/s), clouds.all; and one without main.temp.
GoodData == [temp |-> Flt(22 * Micro), humidity |-> Flt(60 * Micro),
             pressure |-> Flt(1012 * Micro), speed |-> Flt(5 * (Micro \div 2)),
             all |-> Flt(40 * Micro)]
BadData == [k \in DOMAIN GoodData \ {"temp"} |-> GoodData[k]]
Datas == {GoodData, BadData}

\* model.predict(features)[0]: a float (decimal n, side e), or an exception.
\* 0.5 and 50.0 are binary fractions; 49.996 is not.
PredResults ==
    {[raises |-> TRUE, n |-> 0, e |-> 0],
     [raises |-> FALSE, n |-> Micro \div 2, e |-> 0],
     [raises |-> FALSE, n |-> 50 * Micro - 4000, e |-> 1],
     [raises |-> FALSE, n |-> 50 * Micro, e |-> 0]}

\* The sides a double can lie on of the decimal n it prints as.
Sides(n) == IF n % Dyadic = 0 THEN {0} ELSE {-1, 1}

----------------------------------------------------------------------------
(* Operations, one call at a time *)

ChartRows == 20
ChartDataRows == 50
ReportRows == 1
AlertFrom == 50

\* The record of an operation: its name, its request (input), the dict given
\* to append_log (arg), the n of read_recent, what the storage did (io,
\* readable), how it ended (outcome), what it read (result), the advice it
\* computed if it did (classified, advice), whether it sent the SMS (alert),
\* how often it called append_log (appends); and whether the operation before
\* it was an append_log call that returned (afterAppend), with its dict
\* (appended).
NoOp == [op |-> "none", input |-> <<>>, arg |-> NoDict, n |-> 0, io |-> "none",
         outcome |-> "none", result |-> <<>>, advice |-> NoAdvice,
         classified |-> FALSE, alert |-> FALSE, appends |-> 0, readable |-> TRUE,
         afterAppend |-> FALSE, appended |-> NoDict]

\* The bookkeeping every operation ends with: what it was, what the file was
\* before it, and the file after it.
Complete(o, ex, ln) ==
    /\ LET after == last.op = "append_log" /\ last.outcome = "returned"
       IN  last' = [o EXCEPT !.afterAppend = after,
                             !.appended = IF after THEN last.arg ELSE NoDict]
    /\ pre' = [exists |-> fileExists, lines |-> fileLines]
    /\ fileExists' = ex
    /\ fileLines' = ln
    /\ UNCHANGED <<advised, configVars, concVars>>

DataRows(lines) == {i \in DOMAIN lines : lines[i] # HeaderLine}

Room(cap) == Cardinality(DataRows(fileLines)) < cap

\* append_log(d), called directly
AppendLog(ios, cap) ==
    /\ Room(cap)
    /\ \E d \in Dicts, io \in ios :
         LET r == append_log(fileExists, fileLines, d, io)
         IN  Complete([NoOp EXCEPT !.op = "append_log", !.arg = d, !.io = io,
                                   !.appends = 1,
                                   !.outcome = IF r.raised THEN "raised" ELSE "returned"],
                      r.exists, r.lines)

\* read_recent(n), called directly
ReadRecent(rs) ==
    \E n \in 0..MaxN, readable \in rs :
      LET r == read_recent(fileExists, fileLines, n, readable)
      IN  Complete([NoOp EXCEPT !.op = "read_recent", !.n = n, !.result = r.value,
                                !.readable = readable,
                                !.outcome = IF r.raised THEN "raised" ELSE "returned"],
                   fileExists, fileLines)

\* The fields are looked up and not converted.
Parsed_unchecked(form) == \A k \in Measurements : k \in DOMAIN form

\* float(request.form[k]) succeeds for each of the five fields
Parsed(form) == \A k \in Measurements : k \in DOMAIN form /\ form[k].t = "numstr"

\* the row predict and predict_auto log
Row(now, temp, wind, pressure, humidity, cloud, pred) ==
    [date |-> Str(now), temperature |-> Flt(temp), wind |-> Flt(wind),
     pressure |-> Flt(pressure), humidity |-> Flt(humidity), cloud |-> Flt(cloud),
     predicted_rainfall |-> Flt(pred)]

\* twilio_client and ADMIN_PHONE and pred >= 50
AlertDue(client, phone, n) == client /\ phone /\ n >= AlertFrom * Micro

\* _get_chart_data(): read_recent(20); rows are read with r.get, which does
\* not raise
get_chart_data(exists, lines, readable) == read_recent(exists, lines, ChartRows, readable)

\* From the prediction on, predict and predict_auto do the same: the advice,
\* the row, append_log.  What the two do when append_log raises differs.
Logged(o, d, res, io) ==
    LET r == append_log(fileExists, fileLines, d, io)
    IN  [file |-> r,
         o |-> [o EXCEPT !.classified = TRUE,
                         !.advice = generate_farmer_advice(res.n, res.e),
                         !.arg = d, !.io = io, !.appends = 1]]

\* POST /predict with the form and the model's answer to it: every exception
\* from the form to the render is caught and answered with a redirect
Predict(ios, rs, cap) ==
    /\ Room(cap)
    /\ \E form \in Forms, res \in PredResults :
         LET o == [NoOp EXCEPT !.op = "predict", !.input = [form |-> form, res |-> res]]
         IN  IF ~model \/ ~Parsed(form) \/ res.raises
               THEN Complete([o EXCEPT !.outcome = "redirect"], fileExists, fileLines)
               ELSE \E io \in ios :
                 LET d == Row(Now, form.temperature.n, form.wind.n, form.pressure.n,
                              form.humidity.n, form.cloud.n, res.n)
                     l == Logged(o, d, res, io)
                 IN  IF l.file.raised
                       THEN Complete([l.o EXCEPT !.outcome = "redirect"],
                                     l.file.exists, l.file.lines)
                       ELSE \E readable \in rs :
                         Complete(
                           [l.o EXCEPT
                              !.outcome = "rendered", !.readable = readable,
                              !.alert = AlertDue(twilio_client, ADMIN_PHONE, res.n),
                              !.result = get_chart_data(l.file.exists, l.file.lines,
                                                        readable).value],
                           l.file.exists, l.file.lines)

\* data["wind"].get("speed", 0) * 3.6 and data.get("clouds", {}).get("all", 0)
Wind(data) == IF "speed" \in DOMAIN data THEN (data.speed.n * 36) \div 10 ELSE 0
Cloud(data) == IF "all" \in DOMAIN data THEN data.all.n ELSE 0

\* data["main"]["temp"], ["humidity"], ["pressure"] are there
Fetched(data) == {"temp", "humidity", "pressure"} \subseteq DOMAIN data

\* A request to /predict_auto and the weather service's answer: the city
\* given or not, what requests.get does ("200", another status, an
\* exception), the JSON.
AutoRequests ==
    {[city |-> TRUE, http |-> "200", data |-> GoodData],
     [city |-> FALSE, http |-> "200", data |-> GoodData],
     [city |-> TRUE, http |-> "error", data |-> GoodData],
     [city |-> TRUE, http |-> "raises", data |-> GoodData],
     [city |-> TRUE, http |-> "200", data |-> BadData]}

\* POST /predict_auto.  Nothing is caught here: an exception ends the request.
PredictAuto(ios, rs, cap) ==
    /\ Room(cap)
    /\ \E req \in AutoRequests, res \in PredResults :
         LET o == [NoOp EXCEPT !.op = "predict_auto", !.input = [req |-> req, res |-> res]]
         IN  IF ~model \/ ~req.city \/ ~OPENWEATHER_API_KEY
               THEN Complete([o EXCEPT !.outcome = "redirect"], fileExists, fileLines)
             ELSE IF req.http = "raises"
               THEN Complete([o EXCEPT !.outcome = "raised"], fileExists, fileLines)
             ELSE IF req.http # "200"
               THEN Complete([o EXCEPT !.outcome = "redirect"], fileExists, fileLines)
             ELSE IF ~Fetched(req.data) \/ res.raises
               THEN Complete([o EXCEPT !.outcome = "raised"], fileExists, fileLines)
             ELSE \E io \in ios :
               LET d == Row(Now, req.data.temp.n, Wind(req.data), req.data.pressure.n,
                            req.data.humidity.n, Cloud(req.data), res.n)
                   l == Logged(o, d, res, io)
               IN  IF l.file.raised
                     THEN Complete([l.o EXCEPT !.outcome = "raised"],
                                   l.file.exists, l.file.lines)
                     ELSE \E readable \in rs :
                       Complete(
                         [l.o EXCEPT
                            !.outcome = "rendered", !.readable = readable,
                            !.result = get_chart_data(l.file.exists, l.file.lines,
                                                      readable).value],
                         l.file.exists, l.file.lines)

\* GET /: the chart of the home page
Home(rs) ==
    \E readable \in rs :
      LET r == get_chart_data(fileExists, fileLines, readable)
      IN  Complete([NoOp EXCEPT !.op = "home", !.n = ChartRows, !.result = r.value,
                                !.readable = readable,
                                !.outcome = IF r.raised THEN "raised" ELSE "rendered"],
                   fileExists, fileLines)

\* GET /chart_data
ChartData(rs) ==
    \E readable \in rs :
      LET r == read_recent(fileExists, fileLines, ChartDataRows, readable)
      IN  Complete([NoOp EXCEPT !.op = "chart_data", !.n = ChartDataRows,
                                !.result = r.value, !.readable = readable,
                                !.outcome = IF r.raised THEN "raised" ELSE "rendered"],
                   fileExists, fileLines)

\* What download_report does with the record it read: rec["predicted_rainfall"]
\* raises KeyError when the record has no such key, float() raises ValueError
\* on text that is no number; float("22.0") is 22.0 and float of NaN is NaN.
ReportFails(latest) ==
    /\ latest # <<>>
    /\ \/ ~HasKey(latest[1], "predicted_rainfall")
       \/ Item(latest[1], "predicted_rainfall").t = "str"

\* round(nan, 2) is nan and every comparison with nan is false: the last
\* return of generate_farmer_advice (the title's number, nan, is held as 0).
ReportAdvice(latest, e) ==
    LET v == Item(latest[1], "predicted_rainfall")
    IN  IF v.t = "nan"
          THEN Advice("Severe Flooding", 0, "Cease activity", "Loss likely", "Loss likely")
          ELSE generate_farmer_advice(v.n, e)

\* GET /download_report
DownloadReport(rs) ==
    \E readable \in rs :
      LET r == read_recent(fileExists, fileLines, ReportRows, readable)
          o == [NoOp EXCEPT !.op = "download_report", !.n = ReportRows,
                            !.result = r.value, !.readable = readable]
      IN  IF r.raised \/ ReportFails(r.value)
            THEN Complete([o EXCEPT !.outcome = "raised"], fileExists, fileLines)
          ELSE IF r.value = <<>>
            THEN Complete([o EXCEPT !.outcome = "rendered"], fileExists, fileLines)
          ELSE \E e \in Sides(Item(r.value[1], "predicted_rainfall").n) :
                 Complete([o EXCEPT !.outcome = "rendered", !.classified = TRUE,
                                    !.advice = ReportAdvice(r.value, e)],
                          fileExists, fileLines)

----------------------------------------------------------------------------
(* The store and the routes, one operation at a time: Spec with a storage   *)
(* that never fails, SpecFaults with one that can fail a write or a read.   *)

\* The module globals set when app.py is loaded: everything configured, no
\* model file, no SMS account, no weather key.
Configs ==
    {[model |-> TRUE, twilio |-> TRUE, phone |-> TRUE, key |-> TRUE],
     [model |-> FALSE, twilio |-> TRUE, phone |-> TRUE, key |-> TRUE],
     [model |-> TRUE, twilio |-> FALSE, phone |-> FALSE, key |-> FALSE]}

InitCallers ==
    /\ pc = [p \in 1..NumCallers |-> "idle"]
    /\ file_exists = [p \in 1..NumCallers |-> FALSE]
    /\ buf = [p \in 1..NumCallers |-> <<>>]
    /\ row = [p \in 1..NumCallers |-> NoDict]
    /\ flushed = 0

InitStore ==
    /\ fileExists = FALSE
    /\ fileLines = <<>>
    /\ last = NoOp
    /\ pre = [exists |-> FALSE, lines |-> <<>>]

Init ==
    /\ advised = [n |-> 0, e |-> 0, advice |-> NoAdvice]
    /\ InitStore
    /\ \E c \in Configs :
         /\ model = c.model
         /\ twilio_client = c.twilio
         /\ ADMIN_PHONE = c.phone
         /\ OPENWEATHER_API_KEY = c.key
    /\ InitCallers

Next ==
    \/ AppendLog(NoIOFault, MaxRecords)
    \/ ReadRecent(Readable)
    \/ Predict(NoIOFault, Readable, MaxRecords)
    \/ PredictAuto(NoIOFault, Readable, MaxRecords)
    \/ Home(Readable)
    \/ ChartData(Readable)
    \/ DownloadReport(Readable)

Spec == Init /\ [][Next]_vars

NextFaults ==
    \/ AppendLog(IOOutcomes, MaxFaultRecords)
    \/ ReadRecent(ReadableOrNot)
    \/ Predict(IOOutcomes, ReadableOrNot, MaxFaultRecords)
    \/ PredictAuto(IOOutcomes, ReadableOrNot, MaxFaultRecords)
    \/ Home(ReadableOrNot)
    \/ ChartData(ReadableOrNot)
    \/ DownloadReport(ReadableOrNot)

SpecFaults == Init /\ [][NextFaults]_vars

----------------------------------------------------------------------------
(* The classifier alone, over rainfall values around every band boundary *)

\* Distances, in millionths, of an input from a whole number of millimetres:
\* on, next to and between the ties of the second decimal place.
Offsets == {-10000, -5001, -5000, -4999, -4000, -1000, -1,
            0, 1, 1000, 4000, 4999, 5000, 5001, 125000, 375000}

AdviceInputs == {b * Micro + d : b \in -1..MaxRain, d \in Offsets}

FullConfig ==
    /\ model = TRUE
    /\ twilio_client = TRUE
    /\ ADMIN_PHONE = TRUE
    /\ OPENWEATHER_API_KEY = TRUE

\* generate_farmer_advice(rain_mm) on a float
Classify ==
    /\ \E n \in AdviceInputs : \E e \in Sides(n) :
         advised' = [n |-> n, e |-> e, advice |-> generate_farmer_advice(n, e)]
    /\ UNCHANGED <<storeVars, configVars, concVars>>

InitAdvice ==
    /\ advised = [n |-> 0, e |-> 0, advice |-> NoAdvice]
    /\ InitStore
    /\ FullConfig
    /\ InitCallers

NextAdvice == Classify

SpecAdvice == InitAdvice /\ [][NextAdvice]_vars

----------------------------------------------------------------------------
(* append_log called by several requests at once (the server answers each   *)
(* request on a thread of its own): the steps of one call, interleaved.     *)

Callers == 1..NumCallers

InCall == Cardinality({p \in Callers : pc[p] # "idle"})

\* a request calls append_log(d)
Call(p) ==
    /\ pc[p] = "idle"
    /\ flushed + InCall < MaxRecords
    /\ \E d \in Dicts : row' = [row EXCEPT ![p] = d]
    /\ pc' = [pc EXCEPT ![p] = "isfile"]
    /\ UNCHANGED <<advised, storeVars, configVars, file_exists, buf, flushed>>

\* file_exists = os.path.isfile(LOG_FILE)
IsFile(p) ==
    /\ pc[p] = "isfile"
    /\ file_exists' = [file_exists EXCEPT ![p] = fileExists]
    /\ pc' = [pc EXCEPT ![p] = "open"]
    /\ UNCHANGED <<advised, storeVars, configVars, buf, row, flushed>>

\* open(LOG_FILE, "a"): creates the file when it is absent
Open(p) ==
    /\ pc[p] = "open"
    /\ fileExists' = TRUE
    /\ pc' = [pc EXCEPT ![p] = "write"]
    /\ UNCHANGED <<advised, fileLines, last, pre, configVars, file_exists, buf, row, flushed>>

\* writeheader() if not file_exists, then writerow(): both into the buffer of
\* the file object
Write(p) ==
    /\ pc[p] = "write"
    /\ buf' = [buf EXCEPT ![p] = (IF ~file_exists[p] THEN <<HeaderLine>> ELSE <<>>)
                                  \o <<RowLine(row[p])>>]
    /\ pc' = [pc EXCEPT ![p] = "close"]
    /\ UNCHANGED <<advised, storeVars, configVars, file_exists, row, flushed>>

\* leaving the with block: the buffer goes to the end of the file in one
\* write of an append-mode descriptor, and append_log returns
Close(p) ==
    /\ pc[p] = "close"
    /\ fileLines' = fileLines \o buf[p]
    /\ buf' = [buf EXCEPT ![p] = <<>>]
    /\ flushed' = flushed + 1
    /\ pc' = [pc EXCEPT ![p] = "idle"]
    /\ UNCHANGED <<advised, fileExists, last, pre, configVars, file_exists, row>>

InitConc ==
    /\ advised = [n |-> 0, e |-> 0, advice |-> NoAdvice]
    /\ InitStore
    /\ FullConfig
    /\ InitCallers

NextConc ==
    \E p \in Callers :
      \/ Call(p)
      \/ IsFile(p)
      \/ Open(p)
      \/ Write(p)
      \/ Close(p)

SpecConc == InitConc /\ [][NextConc]_vars

----------------------------------------------------------------------------
(* Properties *)

IsPrefix(a, b) == Len(a) <= Len(b) /\ \A i \in 1..Len(a) : a[i] = b[i]

SevenFields(line) == DOMAIN line = 1..7

\* The log is absent, or a header line followed by data rows of seven fields.
ValidLog(ex, ln) ==
    \/ ~ex /\ ln = <<>>
    \/ /\ ex
       /\ ln # <<>>
       /\ ln[1] = HeaderLine
       /\ \A i \in 2..Len(ln) : ln[i] # HeaderLine /\ SevenFields(ln[i])

RowsAdded == Cardinality(DataRows(fileLines)) - Cardinality(DataRows(pre.lines))

LogUnchanged == fileExists = pre.exists /\ fileLines = pre.lines

\* The band a title names.
Band(advice) ==
    IF advice.title.tag = "Drought Alert" THEN "Drought"
    ELSE IF advice.title.tag = "Light Rain" THEN "Light"
    ELSE IF advice.title.tag = "Optimal" THEN "Optimal"
    ELSE IF advice.title.tag = "Heavy" THEN "Heavy"
    ELSE IF advice.title.tag = "Severe Flooding" THEN "Severe"
    ELSE "none"

\* The advice is that of the input rounded to two decimals: v (hundredths) is
\* a nearest hundredth of the input, and the band is the half-open interval v
\* lies in, a boundary belonging to the band above it.
BandOfRounded ==
    advised.advice # NoAdvice =>
      LET v == advised.advice.title.mm
          band == Band(advised.advice)
      IN  /\ 2 * (v * PerCent - advised.n) \in -PerCent..PerCent
          /\ band \in {"Drought", "Light", "Optimal", "Heavy", "Severe"}
          /\ band = "Drought" <=> v < 100
          /\ band = "Light" <=> (100 <= v /\ v < 500)
          /\ band = "Optimal" <=> (500 <= v /\ v < 2000)
          /\ band = "Heavy" <=> (2000 <= v /\ v < 5000)
          /\ band = "Severe" <=> 5000 <= v
          /\ advised.n = Micro + 4000 => v = 100 /\ band = "Light"

\* C1 as amended: the advice is that of the rounded input (1.004 is
\* classified as 1.00, Light), and 0.999999, which rounds to 1.00, is in the
\* band of 1.0 (Light), while 0.994999, which rounds to 0.99, is not.
C1_RoundedValueDecidesBand ==
    /\ BandOfRounded
    /\ advised.n = Micro - 1 =>
         Band(advised.advice) = Band(generate_farmer_advice(Micro, 0))
    /\ advised.n = Micro - 5001 =>
         Band(advised.advice) # Band(generate_farmer_advice(Micro, 0))

C1_Witness ==
    /\ advised.n = Micro - 1
    /\ advised.advice.title.mm = 100
    /\ Band(advised.advice) = "Light"

\* C1 as stated: the advice is that of the rounded input, and 0.999999 and
\* 1.0 are in different bands.
C1_AsStated ==
    /\ BandOfRounded
    /\ advised.n = Micro - 1 =>
         Band(advised.advice) # Band(generate_farmer_advice(Micro, 0))

\* C2: once every concurrent append_log call has returned, the log is one
\* header line followed by one seven-field data row per call, and no header
\* among the rows.
C2_ConcurrentAppendsWellFormed ==
    (\A p \in Callers : pc[p] = "idle") =>
      IF flushed = 0
        THEN fileLines = <<>>
        ELSE /\ Len(fileLines) = flushed + 1
             /\ fileLines[1] = HeaderLine
             /\ \A i \in 2..Len(fileLines) :
                  fileLines[i] # HeaderLine /\ SevenFields(fileLines[i])

\* C3: after any sequence of calls the log is absent or a header followed by
\* data rows, and the row an append_log call wrote holds the seven schema
\* fields in order, a missing key as an empty field, no other key.
C3_AbsentOrHeaderAndRows ==
    /\ ValidLog(fileExists, fileLines)
    /\ (last.op = "append_log" /\ last.outcome = "returned") =>
         /\ RowsAdded = 1
         /\ LET line == fileLines[Len(fileLines)]
            IN  /\ SevenFields(line)
                /\ \A i \in 1..7 :
                     line[i] = IF LOG_COLS[i] \in DOMAIN last.arg
                                 THEN FieldText(last.arg[LOG_COLS[i]])
                                 ELSE EmptyTxt

\* The record a data row stands for: under the header's names, a numeral as
\* its float, text as itself, an empty field as a missing value.
RecordOf(line) ==
    [cols |-> HeaderLine,
     vals |-> [j \in 1..7 |-> IF line[j].t = "num" THEN Flt(line[j].n)
                              ELSE IF line[j].t = "txt" THEN Str(line[j].s)
                              ELSE NaN]]

\* C4: read_recent(n) on a log of total records returns min(n, total)
\* records, the last ones appended, oldest first.
C4_ReadRecentIsTail ==
    last.op = "read_recent" =>
      LET total == IF fileExists THEN Len(fileLines) - 1 ELSE 0
          m == IF last.n < total THEN last.n ELSE total
      IN  /\ Len(last.result) = m
          /\ \A i \in 1..m :
               last.result[i] = RecordOf(fileLines[1 + total - m + i])

C4_Witness ==
    /\ last.op = "read_recent"
    /\ last.n = 2
    /\ Len(fileLines) = 4
    /\ Len(last.result) = 2
    /\ last.result[1] = RecordOf(fileLines[3])
    /\ last.result[2] = RecordOf(fileLines[4])
    /\ fileLines[2] # fileLines[3]
    /\ fileLines[3] # fileLines[4]

C6_ExactlyOnceOrFail ==
    last.op = "append_log" =>
      /\ last.appends = 1
      /\ last.outcome = "returned" => RowsAdded = 1
      /\ last.outcome = "raised" => RowsAdded = 0 /\ ValidLog(fileExists, fileLines)

\* C7: read_recent and its callers never raise, and on a log that is absent,
\* without records, unreadable or malformed they get the empty sequence.
C7_ReadsDegradeToEmpty ==
    last.op \in {"read_recent", "home", "chart_data", "download_report"} =>
      /\ last.outcome # "raised"
      /\ ( \/ ~pre.exists
           \/ ~last.readable
           \/ ~ValidLog(pre.exists, pre.lines)
           \/ Len(pre.lines) <= 1 ) => last.result = <<>>

\* C8: what the log held before an operation is a prefix of what it holds
\* after it, a file that was there is still there, and an operation that
\* only reads leaves the log as it was.
C8_AppendOnly ==
    /\ IsPrefix(pre.lines, fileLines)
    /\ pre.exists => fileExists
    /\ last.op \in {"read_recent", "home", "chart_data", "download_report"} => LogUnchanged

C8_Witness ==
    /\ last.op = "append_log"
    /\ last.outcome = "returned"
    /\ Len(pre.lines) = 2
    /\ Len(fileLines) = 3
    /\ fileLines[2] # fileLines[3]

\* The request's measurements are there and are numbers: the five form fields
\* of /predict; for /predict_auto the city, the key, the service's answer and
\* its fields.
MeasurementsOK ==
    IF last.op = "predict"
      THEN \A k \in {"temperature", "humidity", "wind", "pressure", "cloud"} :
             k \in DOMAIN last.input.form /\ last.input.form[k].t = "numstr"
      ELSE /\ last.input.req.city
           /\ OPENWEATHER_API_KEY
           /\ last.input.req.http = "200"
           /\ {"temp", "humidity", "pressure"} \subseteq DOMAIN last.input.req.data

\* C9: a prediction request appends exactly one record if the model is
\* loaded, the measurements are numbers and the model returns a value, and
\* none otherwise; without the model or the measurements neither the
\* classifier nor append_log runs and the log is left as it was.
C9_OneRecordPerPrediction ==
    last.op \in {"predict", "predict_auto"} =>
      /\ IF model /\ MeasurementsOK /\ ~last.input.res.raises
           THEN RowsAdded = 1 /\ last.appends = 1
           ELSE RowsAdded = 0 /\ LogUnchanged
      /\ (~model \/ ~MeasurementsOK) => ~last.classified /\ last.appends = 0

C9_Witness ==
    /\ last.op = "predict"
    /\ last.outcome = "rendered"
    /\ model
    /\ RowsAdded = 1
    /\ Len(pre.lines) = 2

\* C10: in /predict, with the SMS client and the admin phone configured and
\* the record logged, the alert is sent exactly when the advice is Severe.
C10_AlertIffSevere ==
    (last.op = "predict" /\ last.outcome = "rendered" /\ twilio_client /\ ADMIN_PHONE) =>
      (last.alert <=> Band(last.advice) = "Severe")

====
